---- MODULE Spec2Model ----
(***************************************************************************)
(* A model of the receipt processor of src/main.py: the pydantic models    *)
(* Item and Receipt with their validators, the two FastAPI handlers        *)
(* process_receipt and get_receipt_points, the in-memory receipts_db and   *)
(* the rule engine calculate_points.                                       *)
(*                                                                         *)
(* A Python str is a sequence of one-character strings.  A Python float    *)
(* is an IEEE-754 double, kept exactly: a record with a sign, a mantissa   *)
(* below 2^53 held as a multi-limb natural, and a binary exponent.         *)
(***************************************************************************)
EXTENDS Integers, Sequences, FiniteSets, TLC

(***************************************************************************)
(* Characters.                                                             *)
(***************************************************************************)
Digits == <<"0", "1", "2", "3", "4", "5", "6", "7", "8", "9">>

LowerCase ==
    <<"a", "b", "c", "d", "e", "f", "g", "h", "i", "j", "k", "l", "m",
      "n", "o", "p", "q", "r", "s", "t", "u", "v", "w", "x", "y", "z">>

UpperCase ==
    <<"A", "B", "C", "D", "E", "F", "G", "H", "I", "J", "K", "L", "M",
      "N", "O", "P", "Q", "R", "S", "T", "U", "V", "W", "X", "Y", "Z">>

IsLetter(c) == \E i \in 1..26 : LowerCase[i] = c \/ UpperCase[i] = c

\* str.isspace() on one character
IsSpace(c) == c \in {" ", "\t", "\n"}

IsDigit(c) == \E i \in 1..10 : Digits[i] = c

DigitVal(c) == (CHOOSE i \in 1..10 : Digits[i] = c) - 1

\* str.isalnum() on one character
isalnum(c) == IsDigit(c) \/ IsLetter(c)

\* str.lower() on one character
Lower(c) ==
    IF \E i \in 1..26 : UpperCase[i] = c
    THEN LowerCase[CHOOSE i \in 1..26 : UpperCase[i] = c]
    ELSE c

LowerStr(s) == [i \in 1..Len(s) |-> Lower(s[i])]

RECURSIVE LStrip(_)
LStrip(s) == IF s # <<>> /\ IsSpace(Head(s)) THEN LStrip(Tail(s)) ELSE s

RECURSIVE RStrip(_)
RStrip(s) ==
    IF s # <<>> /\ IsSpace(s[Len(s)]) THEN RStrip(SubSeq(s, 1, Len(s) - 1)) ELSE s

\* str.strip()
strip(s) == RStrip(LStrip(s))

\* index of the first character of s in set cs, 0 when there is none
RECURSIVE FindFrom(_, _, _)
FindFrom(s, cs, i) ==
    IF i > Len(s) THEN 0 ELSE IF s[i] \in cs THEN i ELSE FindFrom(s, cs, i + 1)

\* index of the last character of s in set cs, 0 when there is none
RECURSIVE RFindFrom(_, _, _)
RFindFrom(s, cs, i) ==
    IF i < 1 THEN 0 ELSE IF s[i] \in cs THEN i ELSE RFindFrom(s, cs, i - 1)

\* value.split(sep)[-1]: what follows the last sep, the whole string without one
SplitLast(s, sep) == SubSeq(s, RFindFrom(s, {sep}, Len(s)) + 1, Len(s))

\* value.split(sep): the pieces between the separators
RECURSIVE split(_, _)
split(s, sep) ==
    LET i == FindFrom(s, {sep}, 1)
    IN  IF i = 0 THEN <<s>>
        ELSE <<SubSeq(s, 1, i - 1)>> \o split(SubSeq(s, i + 1, Len(s)), sep)

(***************************************************************************)
(* Naturals of any size: little-endian sequences of limbs below 2^15, no   *)
(* leading zero limb, <<>> for 0.  Every intermediate value stays below    *)
(* 2^31.                                                                   *)
(***************************************************************************)
Limb == 2^15

RECURSIVE BNorm(_)
BNorm(x) ==
    IF x # <<>> /\ x[Len(x)] = 0 THEN BNorm(SubSeq(x, 1, Len(x) - 1)) ELSE x

\* x * c + a, for 0 <= c, a <= 2^15
RECURSIVE BMulAdd(_, _, _)
BMulAdd(x, c, a) ==
    IF x = <<>> THEN (IF a = 0 THEN <<>> ELSE IF a < Limb THEN <<a>> ELSE <<a % Limb, a \div Limb>>)
    ELSE LET v == Head(x) * c + a
         IN  <<v % Limb>> \o BMulAdd(Tail(x), c, v \div Limb)

\* x + y with carry c
RECURSIVE BAddC(_, _, _)
BAddC(x, y, c) ==
    IF x = <<>> /\ y = <<>> THEN (IF c = 0 THEN <<>> ELSE <<c>>)
    ELSE LET a == IF x = <<>> THEN 0 ELSE Head(x)
             b == IF y = <<>> THEN 0 ELSE Head(y)
             v == a + b + c
         IN  <<v % Limb>> \o BAddC(IF x = <<>> THEN <<>> ELSE Tail(x),
                                   IF y = <<>> THEN <<>> ELSE Tail(y), v \div Limb)

BAdd(x, y) == BNorm(BAddC(x, y, 0))

RECURSIVE BMul(_, _)
BMul(x, y) ==
    IF y = <<>> \/ x = <<>> THEN <<>>
    ELSE BAdd(BNorm(BMulAdd(x, Head(y), 0)),
              LET r == BMul(x, Tail(y)) IN IF r = <<>> THEN <<>> ELSE <<0>> \o r)

\* x divided by d, 0 < d <= 2^15, the high limbs first: [q, r], q not normalised
RECURSIVE BDivRaw(_, _)
BDivRaw(x, d) ==
    IF x = <<>> THEN [q |-> <<>>, r |-> 0]
    ELSE LET hi == BDivRaw(Tail(x), d)
             v  == hi.r * Limb + Head(x)
         IN  [q |-> <<v \div d>> \o hi.q, r |-> v % d]

BDivMod(x, d) == LET res == BDivRaw(x, d) IN [q |-> BNorm(res.q), r |-> res.r]

RECURSIVE IntBitLen(_)
IntBitLen(n) == IF n = 0 THEN 0 ELSE 1 + IntBitLen(n \div 2)

BBitLen(x) == IF x = <<>> THEN 0 ELSE 15 * (Len(x) - 1) + IntBitLen(x[Len(x)])

\* x * 2^n
RECURSIVE BShl(_, _)
BShl(x, n) ==
    IF x = <<>> \/ n = 0 THEN x
    ELSE IF n >= 15 THEN <<0>> \o BShl(x, n - 15)
    ELSE BNorm(BMulAdd(x, 2^n, 0))

\* whether x is a multiple of 2^n
RECURSIVE BLowZero(_, _)
BLowZero(x, n) ==
    IF x = <<>> \/ n <= 0 THEN TRUE
    ELSE IF n >= 15 THEN Head(x) = 0 /\ BLowZero(Tail(x), n - 15)
    ELSE Head(x) % (2^n) = 0

\* floor(x / 2^n)
RECURSIVE BShr(_, _)
BShr(x, n) ==
    IF x = <<>> \/ n <= 0 THEN x
    ELSE IF n >= 15 THEN BShr(Tail(x), n - 15)
    ELSE BDivMod(x, 2^n).q

BIsOdd(x) == x # <<>> /\ Head(x) % 2 = 1

\* x * 10^n
RECURSIVE BMulPow10(_, _)
BMulPow10(x, n) ==
    IF n <= 0 THEN x
    ELSE IF n >= 4 THEN BNorm(BMulAdd(BMulPow10(x, n - 4), 10000, 0))
    ELSE BNorm(BMulAdd(BMulPow10(x, n - 1), 10, 0))

\* floor(x / 10^n) and whether anything was cut off
RECURSIVE BDivPow10(_, _, _)
BDivPow10(x, n, cut) ==
    IF n <= 0 THEN [q |-> x, cut |-> cut]
    ELSE LET dm == BDivMod(x, IF n >= 4 THEN 10000 ELSE 10)
             k  == IF n >= 4 THEN 4 ELSE 1
         IN  IF cut \/ dm.r # 0 THEN BDivPow10(dm.q, n - k, TRUE)
             ELSE BDivPow10(dm.q, n - k, FALSE)

\* the natural a decimal digit string denotes
RECURSIVE BFromDigits(_)
BFromDigits(ds) ==
    IF ds = <<>> THEN <<>>
    ELSE BNorm(BMulAdd(BFromDigits(SubSeq(ds, 1, Len(ds) - 1)), 10, DigitVal(ds[Len(ds)])))

\* the value of x as an integer of the model checker, for x below 2^31
BToInt(x) ==
    IF Len(x) = 0 THEN 0
    ELSE IF Len(x) = 1 THEN x[1]
    ELSE IF Len(x) = 2 THEN x[1] + Limb * x[2]
    ELSE x[1] + Limb * x[2] + Limb * Limb * x[3]

BFitsInt(x) == Len(x) <= 2 \/ (Len(x) = 3 /\ x[3] = 1)

(***************************************************************************)
(* Python floats.  A finite double is (-1)^neg * m * 2^e with m < 2^53;    *)
(* kind tells a finite value from inf and nan.                             *)
(***************************************************************************)
MantBits == 53

MinExp == -1074

MaxBin == 1024

FZero(neg) == [kind |-> "finite", neg |-> neg, m |-> <<>>, e |-> 0]

FInf(neg) == [kind |-> "inf", neg |-> neg, m |-> <<>>, e |-> 0]

FNan == [kind |-> "nan", neg |-> FALSE, m |-> <<>>, e |-> 0]

Finite(neg, m, e) == [kind |-> "finite", neg |-> neg, m |-> m, e |-> e]

\* m * 2^e as a double, m below 2^53: inf past the largest double
Pack(neg, m, e) ==
    IF m = <<>> THEN FZero(neg)
    ELSE IF BBitLen(m) + e > MaxBin THEN FInf(neg)
    ELSE Finite(neg, m, e)

\* the rounded mantissa m may have reached 2^53
Renormalise(neg, m, e) ==
    IF BBitLen(m) > MantBits THEN Pack(neg, BShr(m, 1), e + 1) ELSE Pack(neg, m, e)

\* round half to even: m is the kept part, half the first bit dropped, sticky
\* whether anything below it is set
RoundHalfEven(m, half, sticky) ==
    IF half /\ (sticky \/ BIsOdd(m)) THEN BAdd(m, <<1>>) ELSE m

\* how many low bits of q a double cannot keep: all but MantBits of them, more
\* for a subnormal result
DroppedBits(q, eb) ==
    IF BBitLen(q) - MantBits + eb < MinExp THEN MinExp - eb ELSE BBitLen(q) - MantBits

RoundBits(neg, q, cut, eb, t) ==
    IF t <= 0 THEN Finite(neg, q, eb)
    ELSE Renormalise(neg,
                     RoundHalfEven(BShr(q, t), BIsOdd(BShr(q, t - 1)),
                                   cut \/ ~BLowZero(q, t - 1)),
                     t + eb)

\* The double nearest to (q + f) * 2^eb, ties to even, where 0 <= f < 1 and
\* cut says that f > 0.  With cut, q has at least MantBits + 2 bits.
RoundToDouble(neg, q, cut, eb) ==
    IF q = <<>> THEN FZero(neg) ELSE RoundBits(neg, q, cut, eb, DroppedBits(q, eb))

\* bits to scale n up by so that n * 2^s / 10^k keeps MantBits + 2 bits
ScaleBits(n, k) ==
    IF MantBits + 3 + 4 * k > BBitLen(n) THEN MantBits + 3 + 4 * k - BBitLen(n) ELSE 0

RoundQuotient(neg, div, s) == RoundToDouble(neg, div.q, div.cut, -s)

DivideAndRound(neg, n, k, s) == RoundQuotient(neg, BDivPow10(BShl(n, s), k, FALSE), s)

\* The double nearest to n * 10^d (correctly rounded, as strtod does).
DecimalToDouble(neg, n, d) ==
    IF d >= 0 THEN RoundQuotient(neg, [q |-> BMulPow10(n, d), cut |-> FALSE], 0)
    ELSE DivideAndRound(neg, n, -d, ScaleBits(n, -d))

\* A group of digits as float() reads it: underscores only between digits.
DigitGroup(s) ==
    /\ s # <<>>
    /\ \A i \in 1..Len(s) : IsDigit(s[i]) \/ s[i] = "_"
    /\ IsDigit(s[1]) /\ IsDigit(s[Len(s)])
    /\ \A i \in 1..(Len(s) - 1) : ~(s[i] = "_" /\ s[i + 1] = "_")

OnlyDigits(s) == SelectSeq(s, IsDigit)

HasSign(s) == s # <<>> /\ Head(s) \in {"+", "-"}

Unsigned(s) == IF HasSign(s) THEN Tail(s) ELSE s

\* s up to position i - 1, all of s when i = 0
Before(s, i) == IF i = 0 THEN s ELSE SubSeq(s, 1, i - 1)

\* s from position i + 1, nothing when i = 0
After(s, i) == IF i = 0 THEN <<>> ELSE SubSeq(s, i + 1, Len(s))

\* The decimal text float() reads, cut at its point and its exponent mark:
\* ip "." fp "e" ex.  ok is FALSE for text float() refuses.
DecimalParts(ip, fp, hasExp, ex) ==
    [ok     |-> /\ ip # <<>> \/ fp # <<>>
                /\ ip = <<>> \/ DigitGroup(ip)
                /\ fp = <<>> \/ DigitGroup(fp)
                /\ ~hasExp \/ DigitGroup(Unsigned(ex)),
     digits |-> OnlyDigits(ip) \o OnlyDigits(fp),
     frac   |-> Len(OnlyDigits(fp)),
     eNeg   |-> HasSign(ex) /\ Head(ex) = "-",
     eDig   |-> OnlyDigits(ex)]

SplitMantissa(mant, dot, hasExp, ex) ==
    DecimalParts(Before(mant, dot), After(mant, dot), hasExp, ex)

SplitExponent(body, ePos) ==
    SplitMantissa(Before(body, ePos), FindFrom(Before(body, ePos), {"."}, 1),
                  ePos # 0, After(body, ePos))

FloatParts(body) == SplitExponent(body, FindFrom(body, {"e", "E"}, 1))

\* the power of ten the digits are scaled by
DecimalExponent(parts, ex) == (IF parts.eNeg THEN -ex ELSE ex) - parts.frac

FloatOfParts(neg, low, parts) ==
    IF low = <<"i", "n", "f">> \/ low = <<"i", "n", "f", "i", "n", "i", "t", "y">>
    THEN [ok |-> TRUE, f |-> FInf(neg)]
    ELSE IF low = <<"n", "a", "n">> THEN [ok |-> TRUE, f |-> FNan]
    ELSE IF ~parts.ok THEN [ok |-> FALSE, f |-> FNan]
    ELSE [ok |-> TRUE,
          f  |-> DecimalToDouble(neg, BFromDigits(parts.digits),
                                 DecimalExponent(parts, BToInt(BFromDigits(parts.eDig))))]

FloatOfBody(neg, body) == FloatOfParts(neg, LowerStr(body), FloatParts(body))

FloatOfStripped(st) == FloatOfBody(HasSign(st) /\ Head(st) = "-", Unsigned(st))

\* float(value) for a str: [ok, f]; ok = FALSE is the ValueError.
float(value) == FloatOfStripped(strip(value))

\* x < 0
FNegative(x) ==
    \/ x.kind = "inf" /\ x.neg
    \/ x.kind = "finite" /\ x.neg /\ x.m # <<>>

\* float.is_integer()
is_integer(x) == x.kind = "finite" /\ (x.e >= 0 \/ BLowZero(x.m, -x.e))

\* x % 0.25 == 0: the remainder of a finite double is exact, that of inf or nan is nan
IsMultipleOfQuarter(x) == x.kind = "finite" /\ (x.e >= -2 \/ BLowZero(x.m, -x.e - 2))

\* x * y, rounded once
FMul(x, y) ==
    IF x.kind = "nan" \/ y.kind = "nan" THEN FNan
    ELSE IF x.kind = "inf" \/ y.kind = "inf"
    THEN (IF (x.kind = "finite" /\ x.m = <<>>) \/ (y.kind = "finite" /\ y.m = <<>>)
          THEN FNan ELSE FInf(x.neg # y.neg))
    ELSE RoundToDouble(x.neg # y.neg, BMul(x.m, y.m), FALSE, x.e + y.e)

\* floor(m / 2^n), one more unless the division is exact
CeilShift(m, n) == IF BLowZero(m, n) THEN BShr(m, n) ELSE BAdd(BShr(m, n), <<1>>)

\* |math.ceil(x)| for a finite double
CeilMagnitude(x) ==
    IF x.e >= 0 THEN BShl(x.m, x.e)
    ELSE IF x.neg THEN BShr(x.m, -x.e)
    ELSE CeilShift(x.m, -x.e)

\* math.ceil(x) for a finite double
ceil(x) == IF x.neg THEN -BToInt(CeilMagnitude(x)) ELSE BToInt(CeilMagnitude(x))

(***************************************************************************)
(* The pydantic models Item and Receipt.  A validator returns TRUE when it *)
(* returns its value and FALSE when it raises ValueError.                  *)
(***************************************************************************)
validate_short_description(value) ==
    \A i \in 1..Len(value) : isalnum(value[i]) \/ value[i] \in {" ", "-", "_"}

\* the body of validate_price once price = float(value) is evaluated
PriceChecks(price, value) ==
    /\ price.ok
    /\ ~FNegative(price.f)
    /\ Len(SplitLast(value, ".")) = 2

validate_price(value) == PriceChecks(float(value), value)

validate_retailer(value) ==
    \A i \in 1..Len(value) : isalnum(value[i]) \/ value[i] \in {" ", "-", "&", "_"}

validate_total(value) == validate_price(value)

\* The errors pydantic collects for one item, in field order.
ItemErrors(item, i) ==
    (IF validate_short_description(item.shortDescription) THEN <<>>
     ELSE << <<"items", i, "shortDescription">> >>)
    \o (IF validate_price(item.price) THEN <<>> ELSE << <<"items", i, "price">> >>)

RECURSIVE ItemsErrors(_, _)
ItemsErrors(items, i) ==
    IF i > Len(items) THEN <<>> ELSE ItemErrors(items[i], i) \o ItemsErrors(items, i + 1)

\* The errors pydantic collects for a request body: one location per field whose
\* validator raised.  purchaseDate and purchaseTime are plain str fields.
ReceiptErrors(body) ==
    (IF validate_retailer(body.retailer) THEN <<>> ELSE << <<"retailer">> >>)
    \o ItemsErrors(body.items, 1)
    \o (IF validate_total(body.total) THEN <<>> ELSE << <<"total">> >>)

\* receipt.dict(): the model and its items as plain dicts
ItemDict(item) == [shortDescription |-> item.shortDescription, price |-> item.price]

\* a dict that loses the last item of the receipt
dict_partial(receipt) ==
    [retailer     |-> receipt.retailer,
     purchaseDate |-> receipt.purchaseDate,
     purchaseTime |-> receipt.purchaseTime,
     items        |-> [i \in 1..(Len(receipt.items) - 1) |-> receipt.items[i]],
     total        |-> receipt.total]

dict(receipt) ==
    [retailer     |-> receipt.retailer,
     purchaseDate |-> receipt.purchaseDate,
     purchaseTime |-> receipt.purchaseTime,
     items        |-> [i \in 1..Len(receipt.items) |-> ItemDict(receipt.items[i])],
     total        |-> receipt.total]

(***************************************************************************)
(* datetime.strptime for the two formats calculate_points uses.  Each      *)
(* directive matches the alternatives of its regular expression, and the   *)
(* whole string has to be consumed.                                        *)
(***************************************************************************)
AllDigits(s) == \A i \in 1..Len(s) : IsDigit(s[i])

\* int() of a short digit string
RECURSIVE IntOf(_)
IntOf(s) ==
    IF s = <<>> THEN 0 ELSE 10 * IntOf(SubSeq(s, 1, Len(s) - 1)) + DigitVal(s[Len(s)])

\* %Y: \d\d\d\d
MatchY(s) == Len(s) = 4 /\ AllDigits(s)

\* %m: 1[0-2]|0[1-9]|[1-9]
MatchMonth(s) == Len(s) \in {1, 2} /\ AllDigits(s) /\ IntOf(s) \in 1..12

\* %d: 3[01]|[12]\d|0[1-9]|[1-9]| [1-9]
MatchDay(s) ==
    \/ Len(s) \in {1, 2} /\ AllDigits(s) /\ IntOf(s) \in 1..31
    \/ Len(s) = 2 /\ s[1] = " " /\ IsDigit(s[2]) /\ s[2] # "0"

\* %H: 2[0-3]|[0-1]\d|\d
MatchHour(s) == Len(s) \in {1, 2} /\ AllDigits(s) /\ IntOf(s) \in 0..23

\* %M: [0-5]\d|\d
MatchMinute(s) == Len(s) \in {1, 2} /\ AllDigits(s) /\ IntOf(s) \in 0..59

IsLeap(y) == y % 4 = 0 /\ (y % 100 # 0 \/ y % 400 = 0)

DaysInMonth(y, m) ==
    IF m = 2 THEN (IF IsLeap(y) THEN 29 ELSE 28)
    ELSE IF m \in {4, 6, 9, 11} THEN 30
    ELSE 31

\* the date the three matched groups denote; ValueError when there is no such day
DateOf(y, m, d) ==
    IF y >= 1 /\ d <= DaysInMonth(y, m) THEN [ok |-> TRUE, day |-> d]
    ELSE [ok |-> FALSE, day |-> 0]

MatchDate(parts) ==
    IF Len(parts) = 3 /\ MatchY(parts[1]) /\ MatchMonth(parts[2]) /\ MatchDay(parts[3])
    THEN DateOf(IntOf(parts[1]), IntOf(parts[2]), IntOf(SelectSeq(parts[3], IsDigit)))
    ELSE [ok |-> FALSE, day |-> 0]

\* datetime.strptime(s, "%Y-%m-%d"): [ok, day]; ok = FALSE is the ValueError
strptime_date(s) == MatchDate(split(s, "-"))

MatchTime(parts) ==
    IF Len(parts) = 2 /\ MatchHour(parts[1]) /\ MatchMinute(parts[2])
    THEN [ok |-> TRUE, hour |-> IntOf(parts[1])]
    ELSE [ok |-> FALSE, hour |-> 0]

\* datetime.strptime(s, "%H:%M"): [ok, hour]
strptime_time(s) == MatchTime(split(s, ":"))

(***************************************************************************)
(* calculate_points: the seven rules, added up in the order of the code.   *)
(* The result is [ok, points]; ok = FALSE is an exception leaving the      *)
(* function.                                                               *)
(***************************************************************************)
RECURSIVE CountAlnum(_)
CountAlnum(s) ==
    IF s = <<>> THEN 0 ELSE (IF isalnum(Head(s)) THEN 1 ELSE 0) + CountAlnum(Tail(s))

\* Rule 1: one point for every alphanumeric character in the retailer name
Rule1(receipt) == CountAlnum(receipt.retailer)

\* Rule 2: 50 points if the total is a round dollar amount
Rule2(total) == IF is_integer(total) THEN 50 ELSE 0

\* Rule 3: 25 points if the total is a multiple of 0.25
Rule3(total) == IF IsMultipleOfQuarter(total) THEN 25 ELSE 0

\* Rule 4: 5 points for every two items
Rule4(items) == (Len(items) \div 2) * 5

\* the float literal 0.2
Fifth == float(<<"0", ".", "2">>).f

\* price * 0.2 for price = float(item["price"])
PriceTimesFifth(price) == FMul(float(price).f, Fifth)

\* the test of rule 5 on the description as submitted, strip() forgotten
Rule5Qualifies_unstripped(item) == Len(item.shortDescription) % 3 = 0

\* if len(description) % 3 == 0
Rule5Qualifies(item) == Len(strip(item.shortDescription)) % 3 = 0

\* math.ceil(x): [ok, points]; it raises for inf and nan
CeilOrRaise(x) ==
    IF x.kind = "finite" THEN [ok |-> TRUE, points |-> ceil(x)]
    ELSE [ok |-> FALSE, points |-> 0]

\* one pass of the loop of rule 5: [ok, points]
Rule5Item(item) ==
    IF Rule5Qualifies(item) THEN CeilOrRaise(PriceTimesFifth(item.price))
    ELSE [ok |-> TRUE, points |-> 0]

AddPoints(a, b) == [ok |-> a.ok /\ b.ok, points |-> a.points + b.points]

\* Rule 5: the loop over the items
RECURSIVE Rule5(_)
Rule5(items) ==
    IF items = <<>> THEN [ok |-> TRUE, points |-> 0]
    ELSE AddPoints(Rule5Item(Head(items)), Rule5(Tail(items)))

\* Rule 6: 6 points if the day of the purchase date is odd
Rule6(purchase_date) == IF purchase_date.day % 2 = 1 THEN 6 ELSE 0

\* Rule 7: 10 points if the hour of purchase is 14 or 15
Rule7(purchase_time) ==
    IF 14 <= purchase_time.hour /\ purchase_time.hour < 16 THEN 10 ELSE 0

\* the sum, once the conversions of the function are evaluated
SumOfRules(receipt, total, rule5, purchase_date, purchase_time) ==
    IF ~total.ok \/ ~rule5.ok \/ ~purchase_date.ok \/ ~purchase_time.ok
    THEN [ok |-> FALSE, points |-> 0]
    ELSE [ok |-> TRUE,
          points |-> Rule1(receipt) + Rule2(total.f) + Rule3(total.f)
                     + Rule4(receipt.items) + rule5.points
                     + Rule6(purchase_date) + Rule7(purchase_time)]

calculate_points(receipt) ==
    SumOfRules(receipt, float(receipt.total), Rule5(receipt.items),
               strptime_date(receipt.purchaseDate), strptime_time(receipt.purchaseTime))

(***************************************************************************)
(* The service.  requests holds every HTTP request in order of arrival,    *)
(* each with the handler's local variables, the line it is about to        *)
(* execute (pc) and, once it is answered, its response.  FastAPI runs the  *)
(* two handlers in worker threads, so requests interleave line by line.    *)
(***************************************************************************)
VARIABLES receipts_db, requests, uuid_calls

vars == <<receipts_db, requests, uuid_calls>>

MaxRequests == 3

MaxLen == 4

MaxItems == 2

InvalidMsg == "The receipt is invalid."

NotFoundMsg == "No receipt found for that ID."

NoReceipt ==
    [retailer |-> <<>>, purchaseDate |-> <<>>, purchaseTime |-> <<>>,
     items |-> <<>>, total |-> <<>>]

NoResponse == [status |-> 0, id |-> 0, points |-> 0, detail |-> "", errors |-> <<>>]

\* raise HTTPException(status_code, detail)
HTTPException(status_code, detail) ==
    [NoResponse EXCEPT !.status = status_code, !.detail = detail]

\* What FastAPI answers when the body fails the Receipt model: 422 and the
\* list of the fields that failed.
RequestValidationError(errors) == [NoResponse EXCEPT !.status = 422, !.errors = errors]

\* What FastAPI answers when an exception other than HTTPException leaves a handler.
InternalServerError == [NoResponse EXCEPT !.status = 500, !.detail = "Internal Server Error"]

\* The identifiers process_receipt has returned to a client so far.
Returned ==
    {requests[r].response.id : r \in {q \in 1..Len(requests) :
        requests[q].op = "POST" /\ requests[q].response.status = 200}}

\* an identifier taken from the size of the store instead of uuid4()
uuid4_from_store == Cardinality(DOMAIN receipts_db) + 1

\* uuid4() yields an identifier no earlier call has yielded: the n-th call yields n.
uuid4 == uuid_calls + 1

NewRequest(op, body, id, known) ==
    [op |-> op, body |-> body, id |-> id, pc |-> "start", receipt_id |-> 0,
     receipt |-> NoReceipt, points |-> 0, response |-> NoResponse, known |-> known]

Answered(request, response) == [request EXCEPT !.pc = "done", !.response = response]

Answer(r, response) == requests' = [requests EXCEPT ![r] = Answered(@, response)]

Goto(r, line) == requests' = [requests EXCEPT ![r].pc = line]

At(r, line) == r \in 1..Len(requests) /\ requests[r].pc = line

\* What becomes of a POST before process_receipt runs: FastAPI builds the Receipt
\* parameter from the body and answers 422 itself when a validator raised.
ParsedPost(request, errors) ==
    IF errors # <<>> THEN Answered(request, RequestValidationError(errors))
    ELSE [request EXCEPT !.pc = "line100"]

\* A client sends POST /receipts/process.
PostArrives(body) ==
    /\ Len(requests) < MaxRequests
    /\ requests' = Append(requests,
                          ParsedPost(NewRequest("POST", body, 0, FALSE), ReceiptErrors(body)))
    /\ UNCHANGED <<receipts_db, uuid_calls>>

\* A client sends GET /receipts/{id}/points.
GetArrives(id) ==
    /\ Len(requests) < MaxRequests
    /\ requests' = Append(requests,
                          [NewRequest("GET", NoReceipt, id, id \in Returned)
                              EXCEPT !.pc = "line113"])
    /\ UNCHANGED <<receipts_db, uuid_calls>>

\* if not receipt.retailer or not receipt.items or not receipt.total: raise
process_receipt_check(r) ==
    /\ At(r, "line100")
    /\ LET receipt == requests[r].body
       IN  IF receipt.retailer = <<>> \/ receipt.items = <<>> \/ receipt.total = <<>>
           THEN Answer(r, HTTPException(400, InvalidMsg))
           ELSE Goto(r, "line103")
    /\ UNCHANGED <<receipts_db, uuid_calls>>

\* receipt_id = str(uuid4())
process_receipt_uuid(r) ==
    /\ At(r, "line103")
    /\ requests' = [requests EXCEPT ![r].pc = "line104", ![r].receipt_id = uuid4]
    /\ uuid_calls' = uuid_calls + 1
    /\ UNCHANGED receipts_db

\* line 104 without its assignment: the identifier is returned, nothing is stored
process_receipt_store_lost(r) ==
    /\ At(r, "line104")
    /\ Goto(r, "line105")
    /\ UNCHANGED <<receipts_db, uuid_calls>>

\* receipts_db[receipt_id] = receipt.dict()
process_receipt_store(r) ==
    /\ At(r, "line104")
    /\ LET k == requests[r].receipt_id
           v == dict(requests[r].body)
       IN  receipts_db' = [i \in DOMAIN receipts_db \cup {k} |->
                              IF i = k THEN v ELSE receipts_db[i]]
    /\ Goto(r, "line105")
    /\ UNCHANGED uuid_calls

\* return {"id": receipt_id}
process_receipt_return(r) ==
    /\ At(r, "line105")
    /\ Answer(r, [NoResponse EXCEPT !.status = 200, !.id = requests[r].receipt_id])
    /\ UNCHANGED <<receipts_db, uuid_calls>>

\* if id not in receipts_db: raise HTTPException(404)
get_receipt_points_check(r) ==
    /\ At(r, "line113")
    /\ IF requests[r].id \notin DOMAIN receipts_db
       THEN Answer(r, HTTPException(404, NotFoundMsg))
       ELSE Goto(r, "line116")
    /\ UNCHANGED <<receipts_db, uuid_calls>>

\* line 116 as receipts_db.pop(id): the lookup takes the entry out of the store
get_receipt_points_read_pop(r) ==
    /\ At(r, "line116")
    /\ requests' = [requests EXCEPT ![r].pc = "line117",
                                    ![r].receipt = receipts_db[requests[r].id]]
    /\ receipts_db' = [i \in DOMAIN receipts_db \ {requests[r].id} |-> receipts_db[i]]
    /\ UNCHANGED uuid_calls

\* receipt = receipts_db[id]
get_receipt_points_read(r) ==
    /\ At(r, "line116")
    /\ requests' = [requests EXCEPT ![r].pc = "line117",
                                    ![r].receipt = receipts_db[requests[r].id]]
    /\ UNCHANGED <<receipts_db, uuid_calls>>

\* points = calculate_points(receipt)
get_receipt_points_calc(r) ==
    /\ At(r, "line117")
    /\ LET res == calculate_points(requests[r].receipt)
       IN  IF res.ok
           THEN requests' = [requests EXCEPT ![r].pc = "line118", ![r].points = res.points]
           ELSE Answer(r, InternalServerError)
    /\ UNCHANGED <<receipts_db, uuid_calls>>

\* return {"points": points}
get_receipt_points_return(r) ==
    /\ At(r, "line118")
    /\ Answer(r, [NoResponse EXCEPT !.status = 200, !.points = requests[r].points])
    /\ UNCHANGED <<receipts_db, uuid_calls>>

(***************************************************************************)
(* Request bodies.                                                         *)
(***************************************************************************)
Item(shortDescription, price) == [shortDescription |-> shortDescription, price |-> price]

Receipt(retailer, purchaseDate, purchaseTime, items, total) ==
    [retailer |-> retailer, purchaseDate |-> purchaseDate,
     purchaseTime |-> purchaseTime, items |-> items, total |-> total]

\* every string over chars of at most n characters
Strings(chars, n) == UNION {[1..k -> chars] : k \in 0..n}

\* a receipt that passes every check: 6 + 0 + 0 + 5 + 2 + 0 + 0 points
TargetReceipt ==
    Receipt(<<"T", "a", "r", "g", "e", "t">>, <<"2", "0", "2", "2", "-", "0", "1", "-", "0", "2">>, <<"1", "3", ":", "0", "1">>,
            <<Item(<<"a", "b", "c">>, <<"6", ".", "4", "9">>), Item(<<"a", "b">>, <<"1", ".", "2", "6">>)>>, <<"3", "5", ".", "3", "5">>)

\* another one: 2 + 50 + 25 + 0 + 0 + 6 + 10 points
CornerReceipt ==
    Receipt(<<"M", "&", "M">>, <<"2", "0", "2", "2", "-", "0", "3", "-", "2", "1">>, <<"1", "4", ":", "3", "3">>, <<Item(<<"a", "b", " ", "c", "d">>, <<"2", ".", "2", "5">>)>>, <<"9", ".", "0", "0">>)

\* The bodies the clients of the concurrent service send: two receipts that pass,
\* one the Receipt model refuses and one the handler refuses.
SampleBodies ==
    {TargetReceipt, CornerReceipt,
     [TargetReceipt EXCEPT !.retailer = <<"a", "@">>],
     [TargetReceipt EXCEPT !.items = <<>>]}

(***************************************************************************)
(* The concurrent service.                                                 *)
(***************************************************************************)
Init ==
    /\ receipts_db = <<>>
    /\ requests = <<>>
    /\ uuid_calls = 0

Next ==
    \/ \E body \in SampleBodies : PostArrives(body)
    \/ \E id \in 0..uuid_calls : GetArrives(id)
    \/ \E r \in 1..Len(requests) : process_receipt_check(r)
    \/ \E r \in 1..Len(requests) : process_receipt_uuid(r)
    \/ \E r \in 1..Len(requests) : process_receipt_store(r)
    \/ \E r \in 1..Len(requests) : process_receipt_return(r)
    \/ \E r \in 1..Len(requests) : get_receipt_points_check(r)
    \/ \E r \in 1..Len(requests) : get_receipt_points_read(r)
    \/ \E r \in 1..Len(requests) : get_receipt_points_calc(r)
    \/ \E r \in 1..Len(requests) : get_receipt_points_return(r)

Spec == Init /\ [][Next]_vars

(***************************************************************************)
(* One submission at a time, over many bodies: the receipt of the          *)
(* specification's example with one field replaced.                        *)
(***************************************************************************)
PriceChars == {"0", "1", "9", ".", "-", " "}

RetailerChars == {"a", "1", " ", "-", "&", "_", "@"}

DescriptionChars == {"a", "1", " ", "-", "_", "@"}

\* prices and totals of the specification and of the repository's error messages,
\* and text float() reads in its own ways
ExtraPrices ==
    {<<"1", "9", ".", "9", "9">>, <<"1", "9", ".", "9">>, <<"1", "9", ".", "9", "9", "9">>, <<"1", "0", "0", ".", "0", "0">>, <<"-", "1", ".", "0", "0">>, <<"-", "0", ".", "0", "0">>, <<"+", "1", ".", "0", "0">>, <<"1", "_", "0", ".", "0", "0">>,
     <<"n", "a", "n">>, <<"i", "n", "f">>, <<"a", "b", "c">>, <<"1", "2", ".", "5", "E", "1">>,
     <<"1", "e", "1">>, <<"1", ".", "e", "1">>, <<"1", ".", "e", "-", "1">>, <<".", "5", "e", "1">>, <<"1", ".", "5", "0", "e", "1">>,
     <<"0", ".", "2", "5">>, <<"2", ".", "5", "0">>, <<"1", ".", "5", " ">>, <<"1", ".", "5">>}

PriceTexts == Strings(PriceChars, MaxLen) \cup ExtraPrices

DateTexts == {<<"2", "0", "2", "2", "-", "0", "1", "-", "0", "1">>, <<"2", "0", "2", "2", "-", "0", "1", "-", "0", "2">>, <<"2", "0", "2", "2", "-", "1", "-", "3">>, <<"2", "0", "2", "2", "-", "0", "2", "-", "3", "0">>, <<"2", "0", "2", "4", "-", "0", "2", "-", "2", "9">>,
              <<"0", "1", "/", "0", "2", "/", "2", "0", "2", "2">>, <<>>}

TimeTexts == {<<"1", "3", ":", "5", "9">>, <<"1", "4", ":", "0", "0">>, <<"1", "4", ":", "5", "9">>, <<"1", "5", ":", "5", "9">>, <<"1", "6", ":", "0", "0">>, <<"2", "4", ":", "0", "0">>, <<"2", "p", "m">>, <<>>}

\* a body with n items
ItemsOf(n) == [i \in 1..n |-> Item(<<"a", "b", "c">>, <<"1", ".", "0", "0">>)]

\* the example receipt with its total replaced
TotalBodies == {[TargetReceipt EXCEPT !.total = t] : t \in PriceTexts}

\* the example receipt with one item, its price replaced
PriceBodies ==
    {[TargetReceipt EXCEPT !.items = <<Item(<<"a", "b", "c">>, t)>>] : t \in PriceTexts}

RetailerBodies ==
    {[TargetReceipt EXCEPT !.retailer = t] : t \in Strings(RetailerChars, MaxLen)}

DescriptionBodies ==
    {[TargetReceipt EXCEPT !.items = <<Item(t, <<"1", ".", "0", "0">>)>>] :
         t \in Strings(DescriptionChars, MaxLen)}

ItemCountBodies == {[TargetReceipt EXCEPT !.items = ItemsOf(n)] : n \in 0..MaxItems}

DateTimeBodies ==
    {[TargetReceipt EXCEPT !.purchaseDate = d, !.purchaseTime = t] :
         d \in DateTexts, t \in TimeTexts}

\* the only request of the run arrives
Submit(body) == requests = <<>> /\ PostArrives(body)

NextSubmit ==
    \/ \E body \in TotalBodies : Submit(body)
    \/ \E body \in PriceBodies : Submit(body)
    \/ \E body \in RetailerBodies : Submit(body)
    \/ \E body \in DescriptionBodies : Submit(body)
    \/ \E body \in ItemCountBodies : Submit(body)
    \/ \E body \in DateTimeBodies : Submit(body)
    \/ process_receipt_check(1)
    \/ process_receipt_uuid(1)
    \/ process_receipt_store(1)
    \/ process_receipt_return(1)

SpecSubmit == Init /\ [][NextSubmit]_vars

(***************************************************************************)
(* One receipt submitted and then scored, over many receipts.              *)
(***************************************************************************)
TwoDigits(n) == <<Digits[(n \div 10) + 1], Digits[(n % 10) + 1]>>

DollarTexts == {<<"0">>, <<"7">>, <<"1", "0", "0">>, <<"1", "4", "0", "7", "3", "7", "4", "8", "8", "3", "5", "5", "3", "2", "8">>, <<"1", "0", "0", "0", "0", "0", "0", "0", "0", "0", "0", "0", "0", "0", "0", "0">>}

\* totals of every cents value
TwoDecimalTotals == {d \o <<".">> \o TwoDigits(c) : d \in DollarTexts, c \in 0..99}

PriceSamples == {<<"0", ".", "0", "0">>, <<"0", ".", "0", "1">>, <<"1", ".", "2", "5">>, <<"5", ".", "0", "0">>, <<"5", ".", "0", "1">>, <<"6", ".", "4", "9">>, <<"1", "2", ".", "0", "0">>, <<"9", "9", ".", "9", "9">>}

\* descriptions with and without surrounding blanks, of every short length
BlankChars == {"a", " "}

ItemSamples ==
    {Item(<<"a", "b", "c">>, <<"6", ".", "4", "9">>), Item(<<"a", "b">>, <<"1", ".", "2", "6">>), Item(<<" ", "a", "b", "c", "d", "e", "f", " ">>, <<"1", "2", ".", "0", "0">>),
     Item(<<" ", " ", " ">>, <<"5", ".", "0", "1">>), Item(<<>>, <<"1", ".", "2", "5">>)}

\* prices whose points stay below 2^31, the integers of the model checker
PointsFit(price) == BFitsInt(CeilMagnitude(PriceTimesFifth(price)))

ItemLists(n) == UNION {[1..k -> ItemSamples] : k \in 1..n}

\* the price texts the validator lets through
AcceptedPrices == {x \in PriceTexts : validate_price(x)}

ScoredTotals == TwoDecimalTotals \cup AcceptedPrices

ScoredPrices == {x \in AcceptedPrices : PointsFit(x)}

ScoredDescriptions == Strings(BlankChars, MaxLen)

ScoredTotalBodies == {[TargetReceipt EXCEPT !.total = t] : t \in ScoredTotals}

ScoredDescriptionBodies ==
    {[TargetReceipt EXCEPT !.items = <<Item(d, p)>>] :
         d \in ScoredDescriptions, p \in PriceSamples}

ScoredPriceBodies ==
    {[TargetReceipt EXCEPT !.items = <<Item(<<"a", "b", "c">>, p)>>] : p \in ScoredPrices}

ScoredItemBodies == {[TargetReceipt EXCEPT !.items = l] : l \in ItemLists(MaxItems)}

ScoredDateTimeBodies ==
    {[CornerReceipt EXCEPT !.purchaseDate = d, !.purchaseTime = t] :
         d \in DateTexts, t \in TimeTexts}

\* the fetch of the identifier the submission was answered with
Fetch(id) == Len(requests) = 1 /\ GetArrives(id)

NextPoints ==
    \/ \E body \in ScoredTotalBodies : Submit(body)
    \/ \E body \in ScoredDescriptionBodies : Submit(body)
    \/ \E body \in ScoredPriceBodies : Submit(body)
    \/ \E body \in ScoredItemBodies : Submit(body)
    \/ \E body \in ScoredDateTimeBodies : Submit(body)
    \/ process_receipt_check(1)
    \/ process_receipt_uuid(1)
    \/ process_receipt_store(1)
    \/ process_receipt_return(1)
    \/ \E id \in Returned : Fetch(id)
    \/ get_receipt_points_check(2)
    \/ get_receipt_points_read(2)
    \/ get_receipt_points_calc(2)
    \/ get_receipt_points_return(2)

SpecPoints == Init /\ [][NextPoints]_vars

(***************************************************************************)
(* Properties.                                                             *)
(***************************************************************************)
Posts == {r \in 1..Len(requests) : requests[r].op = "POST"}

Gets == {r \in 1..Len(requests) : requests[r].op = "GET"}

Done(r) == requests[r].pc = "done"

\* the request was answered with 200
Succeeded(r) == Done(r) /\ requests[r].response.status = 200

\* the request was answered with an error
Failed(r) == Done(r) /\ requests[r].response.status # 200

\* s, without surrounding blanks and sign, is digits (possibly grouped with
\* underscores), a decimal point and exactly two digits
TwoDecimalText(s) ==
    LET t == Unsigned(strip(s))
    IN  /\ Len(t) >= 3
        /\ t[Len(t) - 2] = "."
        /\ \A i \in 1..(Len(t) - 3) : IsDigit(t[i]) \/ t[i] = "_"
        /\ IsDigit(t[Len(t) - 1]) /\ IsDigit(t[Len(t)])

PriceFields(body) == {body.total} \cup {body.items[i].price : i \in 1..Len(body.items)}

\* C1: a submission is accepted only if every item price and the total is a
\* non-negative decimal number written with a decimal point followed by exactly
\* two digits; text without a decimal point, such as "19", is rejected.
C1_PricesNeedTwoDecimals ==
    \A r \in Posts :
        Succeeded(r) => \A s \in PriceFields(requests[r].body) : TwoDecimalText(s)

\* a description the specification allows: not empty, and only letters, digits,
\* space, hyphen and underscore
AllowedDescription(s) ==
    /\ s # <<>>
    /\ \A i \in 1..Len(s) : isalnum(s[i]) \/ s[i] \in {" ", "-", "_"}

HasBadDescription(body) ==
    \E i \in 1..Len(body.items) : ~AllowedDescription(body.items[i].shortDescription)

\* C2: a receipt with an item whose shortDescription is empty or holds a
\* disallowed character is rejected, so no stored receipt has an item with an
\* empty shortDescription.
C2_BadDescriptionsRejected ==
    /\ \A r \in Posts : HasBadDescription(requests[r].body) => ~Succeeded(r)
    /\ \A id \in DOMAIN receipts_db :
           \A i \in 1..Len(receipts_db[id].items) :
               receipts_db[id].items[i].shortDescription # <<>>

\* C5: every rejected submission gets the same answer, whichever check failed:
\* the client-error status of the handler with the message "The receipt is invalid."
C5_UniformRejection ==
    \A r \in Posts : Failed(r) => requests[r].response = HTTPException(400, InvalidMsg)

\* s is digits, a decimal point and two digits
PlainTwoDecimal(s) ==
    /\ Len(s) >= 4
    /\ s[Len(s) - 2] = "."
    /\ AllDigits(SubSeq(s, 1, Len(s) - 3))
    /\ AllDigits(SubSeq(s, Len(s) - 1, Len(s)))

Cents(s) == IntOf(SubSeq(s, Len(s) - 1, Len(s)))

\* what the total is worth by its cents
ExpectedTotalPoints(s) ==
    IF Cents(s) = 0 THEN 75 ELSE IF Cents(s) \in {25, 50, 75} THEN 25 ELSE 0

\* the part of the points of a scored receipt that its total contributed
TotalPoints(receipt, points) ==
    points - (Rule1(receipt) + Rule4(receipt.items) + Rule5(receipt.items).points
              + Rule6(strptime_date(receipt.purchaseDate))
              + Rule7(strptime_time(receipt.purchaseTime)))

\* C3: the total of a stored receipt contributes exactly 75 points when its
\* cents are 00, 25 when they are 25, 50 or 75, and nothing otherwise, for every
\* total written with two decimals.
C3_TotalPointsByCents ==
    \A r \in Gets :
        Succeeded(r) /\ PlainTwoDecimal(requests[r].receipt.total)
            => TotalPoints(requests[r].receipt, requests[r].response.points)
                   = ExpectedTotalPoints(requests[r].receipt.total)

\* C10: every stored receipt has a well-formed purchaseDate and purchaseTime, so
\* a fetch of an identifier that was returned always answers with a non-negative
\* number of points and never fails inside calculate_points.
C10_StoredReceiptsScore ==
    /\ \A id \in DOMAIN receipts_db :
           /\ strptime_date(receipts_db[id].purchaseDate).ok
           /\ strptime_time(receipts_db[id].purchaseTime).ok
    /\ \A r \in Gets :
           Done(r) /\ requests[r].known
               => requests[r].response.status = 200 /\ requests[r].response.points >= 0

\* the least integer not below x / 5 for a double x >= 0, in exact arithmetic
ExactFifthCeil(x) == BToInt(BDivMod(BAdd(CeilMagnitude(x), <<4>>), 5).q)

\* the length of the description once surrounding whitespace is removed
TrimmedLen(item) == Len(strip(item.shortDescription))

RECURSIVE SumSeq(_)
SumSeq(ns) == IF ns = <<>> THEN 0 ELSE Head(ns) + SumSeq(Tail(ns))

SumOver(items, Worth(_)) == SumSeq([i \in 1..Len(items) |-> Worth(items[i])])

\* ceil(price * 0.2) for the items whose trimmed length is a multiple of 3
WorthByLength(item) ==
    IF TrimmedLen(item) % 3 = 0 THEN ExactFifthCeil(float(item.price).f) ELSE 0

\* the same, an item whose trimmed description is empty being worth nothing
WorthByNonZeroLength(item) ==
    IF TrimmedLen(item) # 0 /\ TrimmedLen(item) % 3 = 0
    THEN ExactFifthCeil(float(item.price).f) ELSE 0

\* the part of the points of a scored receipt that rule 5 contributed
DescriptionPoints(receipt, points) ==
    points - (Rule1(receipt) + Rule2(float(receipt.total).f) + Rule3(float(receipt.total).f)
              + Rule4(receipt.items)
              + Rule6(strptime_date(receipt.purchaseDate))
              + Rule7(strptime_time(receipt.purchaseTime)))

\* C4 (as stated): the description-length points of a stored receipt are the sum
\* of ceil(price * 0.2) over the items whose trimmed shortDescription has a
\* non-zero length divisible by 3; an item whose trimmed description has length
\* zero contributes nothing.  Stated for the receipts in which no description is
\* the empty string.
C4_NonZeroLengthOnly ==
    \A r \in Gets :
        /\ Succeeded(r)
        /\ \A i \in 1..Len(requests[r].receipt.items) :
               requests[r].receipt.items[i].shortDescription # <<>>
        => DescriptionPoints(requests[r].receipt, requests[r].response.points)
                            = SumOver(requests[r].receipt.items, WorthByNonZeroLength)

\* C4 (amended): the description-length points of a stored receipt are the sum
\* of ceil(price * 0.2) over exactly the items whose trimmed shortDescription has
\* a length divisible by 3, the length zero included; every other item
\* contributes nothing.
C4_LengthDivisibleByThree ==
    \A r \in Gets :
        Succeeded(r) => DescriptionPoints(requests[r].receipt, requests[r].response.points)
                            = SumOver(requests[r].receipt.items, WorthByLength)

\* a scored receipt with an item of blanks only that earned points, next to an
\* item whose length is no multiple of 3
C4_Witness ==
    \E r \in Gets :
        /\ Succeeded(r)
        /\ \E i \in 1..Len(requests[r].receipt.items) :
               /\ requests[r].receipt.items[i].shortDescription # <<>>
               /\ TrimmedLen(requests[r].receipt.items[i]) = 0
               /\ WorthByLength(requests[r].receipt.items[i]) > 0
        /\ \E i \in 1..Len(requests[r].receipt.items) :
               TrimmedLen(requests[r].receipt.items[i]) % 3 # 0
        /\ DescriptionPoints(requests[r].receipt, requests[r].response.points) > 0

\* C6: once process_receipt has returned an identifier, a fetch of it that
\* arrives later never answers "No receipt found for that ID.", whatever other
\* requests run in between: the receipt is in the store from then on.
C6_ReturnedIdsAreFound ==
    /\ Returned \subseteq DOMAIN receipts_db
    /\ \A r \in Gets :
           requests[r].known /\ Done(r) => requests[r].response # HTTPException(404, NotFoundMsg)

\* a fetch of a returned identifier answered with points, a submission having
\* arrived between the one that got the identifier and the fetch
C6_Witness ==
    \E r \in Gets :
        /\ requests[r].known /\ Succeeded(r)
        /\ \E p, q \in Posts :
               p < q /\ q < r /\ Succeeded(p) /\ requests[p].response.id = requests[r].id

\* the submissions that have passed line 104
Stored == {r \in Posts : requests[r].pc = "line105" \/ Succeeded(r)}

\* the store changes by adding one entry under a new key, or not at all
StoreOnlyGrows ==
    /\ \A k \in DOMAIN receipts_db :
           k \in DOMAIN receipts_db' /\ receipts_db'[k] = receipts_db[k]
    /\ Cardinality(DOMAIN receipts_db') <= Cardinality(DOMAIN receipts_db) + 1

\* C7: under any interleaving, two accepted submissions never get the same
\* identifier, an entry of receipts_db is never overwritten, changed or removed,
\* and the store grows by exactly one key per accepted submission.
C7_UniqueIdsStoreOnlyGrows ==
    /\ [](/\ \A p, q \in Stored :
                 requests[p].receipt_id = requests[q].receipt_id => p = q
          /\ Cardinality(DOMAIN receipts_db) = Cardinality(Stored))
    /\ [][StoreOnlyGrows]_vars

\* two submissions were between line 103 and line 105 at the same time and both
\* have been answered with an identifier
C7_Witness ==
    \E p, q \in Posts :
        /\ p < q /\ Succeeded(p) /\ Succeeded(q)
        /\ requests[q].receipt_id < requests[p].receipt_id
        /\ Cardinality(DOMAIN receipts_db) = 2

\* the stored dict holds the fields of the body, the items one by one in order
StoredWhole(stored, body) ==
    /\ stored.retailer = body.retailer
    /\ stored.purchaseDate = body.purchaseDate
    /\ stored.purchaseTime = body.purchaseTime
    /\ stored.total = body.total
    /\ Len(stored.items) = Len(body.items)
    /\ \A i \in 1..Len(body.items) :
           /\ stored.items[i].shortDescription = body.items[i].shortDescription
           /\ stored.items[i].price = body.items[i].price

\* C8: a rejected submission is issued no identifier and adds nothing to
\* receipts_db; an accepted one has stored the whole receipt, every item in the
\* submitted order.
C8_WhollyAcceptedOrRejected ==
    /\ \A r \in Posts : Failed(r) => requests[r].receipt_id = 0 /\ requests[r].response.id = 0
    /\ DOMAIN receipts_db = {requests[r].receipt_id : r \in Stored}
    /\ \A r \in Stored :
           StoredWhole(receipts_db[requests[r].receipt_id], requests[r].body)

\* a submission refused by the model, one refused by the handler and one
\* accepted with its two items: the store holds the accepted one only
C8_Witness ==
    /\ \E r \in Posts : requests[r].response.status = 422
    /\ \E r \in Posts : requests[r].response.status = 400
    /\ \E r \in Posts : Succeeded(r) /\ Len(requests[r].body.items) = 2
    /\ Cardinality(DOMAIN receipts_db) = 1

\* a step of a fetch: it arrives, or it moves on
GetStep ==
    \E r \in 1..Len(requests') :
        /\ requests'[r].op = "GET"
        /\ r > Len(requests) \/ requests'[r] # requests[r]

====
